---------------------------- MODULE Spec2Model ----------------------------
(* The per-batch generation / scoring / update loop of                     *)
(* example_relativistic_ppo.py (lines 99-124), with the closure            *)
(* get_rewards, the collator and the length sampler it relies on.          *)
EXTENDS Integers, Sequences, FiniteSets, TLC

(***************************************************************************)
(* Bounds of the model.                                                    *)
(***************************************************************************)
\* configured batch size of the trainer's dataloader
BatchSize == 2
\* largest dataset the model runs on
MaxItems == 4
\* generation may stop (end-of-sequence) after 1 .. MaxEarly new tokens
MaxEarly == 1

(***************************************************************************)
(* Program constants.                                                      *)
(***************************************************************************)
output_min_length == 4
output_max_length == 16

\* token ids: 1..4 are the words of the prompts, 5 and 6 the other words of the
\* vocabulary, 0 is end-of-sequence (tokenizer.eos_token_id)
EosToken == 0
\* the words sampling is explored with
SampledTokens == {6}

\* tokenizer.decode of one token id
Word(t) ==
    CASE t = 0 -> "<|endoftext|>"
      [] t = 1 -> "I"
      [] t = 2 -> "loved"
      [] t = 3 -> "This"
      [] t = 4 -> "was"
      [] t = 5 -> "great"
      [] OTHER -> "awful"

\* tokenizer.decode of a token sequence: the text, word by word
Decode(ids) == [k \in 1..Len(ids) |-> Word(ids[k])]

\* the tokenized review of dataset item i, cut to a sampled input size
\* (between 2 and 7 tokens, the values of LengthSampler(2, 8))
InputIds(i) == IF i % 2 = 1 THEN <<1, 2>> ELSE <<3, 4, 1>>

\* build_dataset: one record per item, with its token ids and the decoded query
DatasetItem(i) == [input_ids |-> InputIds(i), query |-> Decode(InputIds(i))]

\* LengthSampler(min, max): the values it draws from, range(min, max)
LengthSampler(lo, hi) == lo..(hi - 1)

\* the draws of output_length_sampler() the model explores: the smallest and
\* the largest value of the sampler
SampledLengths ==
    {v \in LengthSampler(output_min_length, output_max_length) :
        v = output_min_length \/ v = output_max_length - 1}

\* Python s[-k:] for k > 0
Suffix(s, k) == IF k >= Len(s) THEN s ELSE SubSeq(s, Len(s) - k + 1, Len(s))

\* n copies of token t
Repeat(t, n) == [k \in 1..n |-> t]

\* what ppo_trainer.generate(query, max_new_tokens = L) can return: the prompt
\* followed by L sampled tokens, or by fewer when end-of-sequence is sampled
GenerateOutputs(query, L) ==
    {query \o Repeat(t, L) : t \in SampledTokens}
      \cup {query \o Repeat(t, n - 1) \o <<EosToken>> :
              t \in SampledTokens, n \in {m \in 1..MaxEarly : m < L}}

\* the model instance ppo_trainer.generate runs when get_rewards is called
\* with the given ref_model flag: the flag is not read, the call is the same
GenerateModel(ref_model) == "model"

(***************************************************************************)
(* The sentiment pipeline (sentiment_pipe with sent_kwargs).               *)
(***************************************************************************)
CountWords(text, words) == Cardinality({k \in 1..Len(text) : text[k] \in words})

\* raw logit of each class for a text (function_to_apply = "none")
PositiveLogit(text) ==
    CountWords(text, {"loved", "great"}) - CountWords(text, {"awful"})
NegativeLogit(text) == 0 - PositiveLogit(text)

\* top_k = None: every class, ranked by descending score (ties in label order)
RankedScores(text) ==
    LET pos == [label |-> "POSITIVE", score |-> PositiveLogit(text)]
        neg == [label |-> "NEGATIVE", score |-> NegativeLogit(text)]
    IN  IF pos.score > neg.score THEN <<pos, neg>> ELSE <<neg, pos>>

\* sentiment_pipe(texts, **sent_kwargs): one ranked list per input, in order
SentimentPipe(texts) == [k \in 1..Len(texts) |-> RankedScores(texts[k])]

Min(a, b) == IF a <= b THEN a ELSE b

\* a pairing that takes the responses in reverse order
TextsCrossed(queries, responses) ==
    [k \in 1..Min(Len(queries), Len(responses)) |->
        queries[k] \o responses[Len(responses) + 1 - k]]

\* line 113: texts = [q + r for q, r in zip(batch["query"], batch["response"])]
Texts(queries, responses) ==
    [k \in 1..Min(Len(queries), Len(responses)) |-> queries[k] \o responses[k]]

\* line 115: rewards = [torch.tensor(output[1]["score"]) for output in pipe_outputs]
Rewards(outputs) == [k \in 1..Len(outputs) |-> outputs[k][2].score]

(***************************************************************************)
(* The dataloader of the trainer and the collator.                         *)
(***************************************************************************)
\* number of batches a dataset of n items yields (the last may be partial)
NumBatches(n) == (n + BatchSize - 1) \div BatchSize

\* the dataset items of the k-th batch (k = 1, 2, ...), in dataset order
BatchItems(k, n) ==
    [j \in 1..(Min(k * BatchSize, n) - (k - 1) * BatchSize) |->
        DatasetItem((k - 1) * BatchSize + j)]

\* collator(data): one list per key
collator(data) ==
    [input_ids |-> [j \in 1..Len(data) |-> data[j].input_ids],
     query     |-> [j \in 1..Len(data) |-> data[j].query]]

(***************************************************************************)
(* Control flow of the loop body.                                          *)
(***************************************************************************)
\* an exception that is swallowed: the script stays where it was
RaiseSwallowed(at) == at

\* an exception raised at a call is caught nowhere: the run ends there
Raise(at) == "aborted"

\* a for loop that leaves out the last query
PassCompleteEarly(rts, queries) == Len(rts) + 1 >= Len(queries)

\* the for loop of get_rewards ends when every query has its response
PassComplete(rts, queries) == Len(rts) = Len(queries)

\* a loop body without the second get_rewards call
AfterRewardsOnce(ref) == "step"

\* lines 118-123: get_rewards(), then get_rewards(ref_model=True), then step
AfterRewards(ref) == IF ref THEN "step" ELSE "gen"

\* an iteration that skips a batch
AdvanceSkipping(d) == d + 2

\* enumerate(ppo_trainer.dataloader): the next batch follows the current one
Advance(d) == d + 1

PassName(ref) == IF ref THEN "ref" ELSE "policy"

VARIABLES
    N,                      \* number of items of the dataset
    pc,                     \* position of the script
    drawn,                  \* batches the dataloader has yielded so far
    batch,                  \* the current batch (a mapping key -> list)
    query_tensors,          \* batch["input_ids"]
    ref_model,              \* the flag of the running get_rewards call
    fn_response_tensors,    \* response_tensors, local to get_rewards
    gen_len,                \* the last sampled length
    response,               \* the last result of ppo_trainer.generate
    generated_by,           \* model instance behind each local response
    pipe_outputs,           \* what sentiment_pipe returned last
    response_tensors,       \* results of get_rewards()
    rewards,
    response_tensors_ref,   \* results of get_rewards(ref_model=True)
    rewards_ref,
    generators,             \* model instances behind response_tensors
    generators_ref,         \* model instances behind response_tensors_ref
    step_args,              \* the lists submitted to ppo_trainer.step
    stats,                  \* the statistics ppo_trainer.step returned
    trace,                  \* calls made for the current batch, in order
    history,                \* <<batch, "update" | "log">> completed, in order
    failed                  \* a call raised

vars == <<N, pc, drawn, batch, query_tensors, ref_model, fn_response_tensors,
          gen_len, response, generated_by, pipe_outputs, response_tensors,
          rewards, response_tensors_ref, rewards_ref, generators,
          generators_ref, step_args, stats, trace, history, failed>>

\* the names bound inside one iteration
iteration == <<batch, query_tensors, ref_model, fn_response_tensors, gen_len,
               response, generated_by, pipe_outputs, response_tensors, rewards,
               response_tensors_ref, rewards_ref, generators, generators_ref,
               step_args, stats>>

\* nothing of an iteration is bound (before the first batch, and once a batch
\* is discarded: each name is rebound before the next iteration reads it)
Unbound ==
    /\ batch = <<>>
    /\ query_tensors = <<>>
    /\ ref_model = FALSE
    /\ fn_response_tensors = <<>>
    /\ gen_len = 0
    /\ response = <<>>
    /\ generated_by = <<>>
    /\ pipe_outputs = <<>>
    /\ response_tensors = <<>>
    /\ rewards = <<>>
    /\ response_tensors_ref = <<>>
    /\ rewards_ref = <<>>
    /\ generators = <<>>
    /\ generators_ref = <<>>
    /\ step_args = <<>>
    /\ stats = <<>>

Init ==
    /\ N \in 1..MaxItems
    /\ pc = "fetch"
    /\ drawn = 0
    /\ Unbound
    /\ trace = <<>>
    /\ history = <<>>
    /\ failed = FALSE

\* every name bound inside the iteration is dropped
Discard ==
    /\ batch' = <<>>
    /\ query_tensors' = <<>>
    /\ ref_model' = FALSE
    /\ fn_response_tensors' = <<>>
    /\ gen_len' = 0
    /\ response' = <<>>
    /\ generated_by' = <<>>
    /\ pipe_outputs' = <<>>
    /\ response_tensors' = <<>>
    /\ rewards' = <<>>
    /\ response_tensors_ref' = <<>>
    /\ rewards_ref' = <<>>
    /\ generators' = <<>>
    /\ generators_ref' = <<>>
    /\ step_args' = <<>>
    /\ stats' = <<>>

\* line 99-100: the dataloader yields the next batch
NextBatch ==
    /\ pc = "fetch"
    /\ drawn < NumBatches(N)
    /\ drawn' = Advance(drawn)
    /\ batch' = collator(BatchItems(drawn', N))
    /\ query_tensors' = batch'.input_ids
    /\ ref_model' = FALSE
    /\ fn_response_tensors' = <<>>
    /\ generated_by' = <<>>
    /\ trace' = <<>>
    /\ pc' = "gen"
    /\ UNCHANGED <<N, gen_len, response, pipe_outputs, response_tensors, rewards,
                   response_tensors_ref, rewards_ref, generators, generators_ref,
                   step_args, stats, history, failed>>

\* line 99: the dataloader is exhausted
LoopExit ==
    /\ pc = "fetch"
    /\ drawn >= NumBatches(N)
    /\ pc' = "done"
    /\ UNCHANGED <<N, drawn, iteration, trace, history, failed>>

\* lines 105-109: one turn of the for loop of get_rewards
Generate ==
    /\ pc = "gen"
    /\ ~PassComplete(fn_response_tensors, query_tensors)
    /\ LET query == query_tensors[Len(fn_response_tensors) + 1]
       IN  \E L \in SampledLengths :
             \E out \in GenerateOutputs(query, L) :
               /\ gen_len' = L
               /\ response' = out
               /\ fn_response_tensors' =
                      Append(fn_response_tensors, Suffix(out, L))
    /\ generated_by' = Append(generated_by, GenerateModel(ref_model))
    /\ trace' = Append(trace, <<"generate", PassName(ref_model)>>)
    /\ UNCHANGED <<N, pc, drawn, batch, query_tensors, ref_model, pipe_outputs,
                   response_tensors, rewards, response_tensors_ref, rewards_ref,
                   generators, generators_ref, step_args, stats, history, failed>>

\* line 108 raises: the exception ends the process, nothing stays bound
GenerateFails ==
    /\ pc = "gen"
    /\ ~PassComplete(fn_response_tensors, query_tensors)
    /\ trace' = Append(trace, <<"generate", PassName(ref_model)>>)
    /\ failed' = TRUE
    /\ pc' = Raise(pc)
    /\ IF pc' = "aborted" THEN Discard ELSE UNCHANGED iteration
    /\ UNCHANGED <<N, drawn, history>>

\* batch["response"] = [tokenizer.decode(r.squeeze()) for r in response_tensors]
WithResponse(b, rts) ==
    [input_ids |-> b.input_ids,
     query     |-> b.query,
     response  |-> [k \in 1..Len(rts) |-> Decode(rts[k])]]

\* lines 110-116 and the assignment of line 118 or 119
Score ==
    /\ pc = "gen"
    /\ PassComplete(fn_response_tensors, query_tensors)
    /\ batch' = WithResponse(batch, fn_response_tensors)
    /\ pipe_outputs' = SentimentPipe(Texts(batch'.query, batch'.response))
    /\ IF ref_model
         THEN /\ response_tensors_ref' = fn_response_tensors
              /\ rewards_ref' = Rewards(pipe_outputs')
              /\ generators_ref' = generated_by
              /\ UNCHANGED <<response_tensors, rewards, generators>>
         ELSE /\ response_tensors' = fn_response_tensors
              /\ rewards' = Rewards(pipe_outputs')
              /\ generators' = generated_by
              /\ UNCHANGED <<response_tensors_ref, rewards_ref, generators_ref>>
    /\ trace' = Append(trace, <<"score", PassName(ref_model)>>)
    /\ pc' = AfterRewards(ref_model)
    /\ ref_model' = (pc' = "gen")
    \* the call returns: its locals are gone
    /\ fn_response_tensors' = <<>>
    /\ generated_by' = <<>>
    /\ gen_len' = 0
    /\ response' = <<>>
    /\ UNCHANGED <<N, drawn, query_tensors, step_args, stats, history, failed>>

\* line 114 raises
ScoreFails ==
    /\ pc = "gen"
    /\ PassComplete(fn_response_tensors, query_tensors)
    /\ trace' = Append(trace, <<"score", PassName(ref_model)>>)
    /\ failed' = TRUE
    /\ pc' = Raise(pc)
    /\ IF pc' = "aborted" THEN Discard ELSE UNCHANGED iteration
    /\ UNCHANGED <<N, drawn, history>>

\* line 123: stats = ppo_trainer.step(...)
Step ==
    /\ pc = "step"
    /\ step_args' = [queries       |-> query_tensors,
                     responses     |-> response_tensors,
                     responses_ref |-> response_tensors_ref,
                     scores        |-> rewards,
                     scores_ref    |-> rewards_ref]
    /\ stats' = [batch_no |-> drawn]
    /\ trace' = Append(trace, <<"update">>)
    /\ history' = Append(history, <<drawn, "update">>)
    /\ pc' = "log"
    /\ UNCHANGED <<N, drawn, batch, query_tensors, ref_model, fn_response_tensors,
                   gen_len, response, generated_by, pipe_outputs, response_tensors,
                   rewards, response_tensors_ref, rewards_ref, generators,
                   generators_ref, failed>>

\* line 123 raises
StepFails ==
    /\ pc = "step"
    /\ trace' = Append(trace, <<"update">>)
    /\ failed' = TRUE
    /\ pc' = Raise(pc)
    /\ IF pc' = "aborted" THEN Discard ELSE UNCHANGED iteration
    /\ UNCHANGED <<N, drawn, history>>

\* line 124: ppo_trainer.log_stats(stats, batch, rewards); the iteration ends
LogStats ==
    /\ pc = "log"
    /\ trace' = Append(trace, <<"log">>)
    /\ history' = Append(history, <<drawn, "log">>)
    /\ Discard
    /\ pc' = "fetch"
    /\ UNCHANGED <<N, drawn, failed>>

\* line 124 raises
LogStatsFails ==
    /\ pc = "log"
    /\ trace' = Append(trace, <<"log">>)
    /\ failed' = TRUE
    /\ pc' = Raise(pc)
    /\ IF pc' = "aborted" THEN Discard ELSE UNCHANGED iteration
    /\ UNCHANGED <<N, drawn, history>>

Next ==
    \/ NextBatch
    \/ LoopExit
    \/ Generate
    \/ GenerateFails
    \/ Score
    \/ ScoreFails
    \/ Step
    \/ StepFails
    \/ LogStats
    \/ LogStatsFails

Spec == Init /\ [][Next]_vars

\* the script runs on: an enabled step is eventually taken
FairSpec == Init /\ [][Next]_vars /\ WF_vars(Next)

(***************************************************************************)
(* Properties.                                                             *)
(***************************************************************************)
Last(s) == s[Len(s)]
IsPrefix(s, t) == Len(s) <= Len(t) /\ SubSeq(t, 1, Len(s)) = s

\* number of items of batch k of a dataset of n items
ItemsOfBatch(k, n) == Min(BatchSize, n - (k - 1) * BatchSize)

\* C1: the reference responses submitted to the update step were generated by
\* the reference model instance, not by the policy model instance
RefResponsesFromRefModel ==
    step_args # <<>> =>
        /\ Len(generators_ref) = Len(step_args.responses_ref)
        /\ \A i \in DOMAIN generators_ref :
              generators_ref[i] = "ref_model" /\ generators_ref[i] # generators[i]

\* the score the pipeline attached to the positive class
PositiveScore(output) ==
    (CHOOSE p \in {output[k] : k \in DOMAIN output} : p.label = "POSITIVE").score

\* C2: every reward is the score of the pair labelled with the positive class
\* in the pipeline's output for that text
RewardIsPositiveScore ==
    pipe_outputs # <<>> =>
        LET rs == IF rewards_ref # <<>> THEN rewards_ref ELSE rewards
        IN  \A i \in DOMAIN pipe_outputs : rs[i] = PositiveScore(pipe_outputs[i])

\* a generation has returned and its response is the last one stored
JustGenerated == ~failed /\ fn_response_tensors # <<>>

\* C3: the sampled length L satisfies 4 <= L < 16 and the response stored for
\* the query has exactly L tokens, whatever generation returned
ResponseHasSampledLength ==
    JustGenerated =>
        /\ 4 <= gen_len /\ gen_len < 16
        /\ Len(Last(fn_response_tensors)) = gen_len

\* C4: reward i of a pass is the score of the text of query i followed by the
\* text of response i of that same pass
RewardsAligned ==
    step_args # <<>> =>
        /\ Len(rewards) = Len(query_tensors)
        /\ Len(rewards_ref) = Len(query_tensors)
        /\ \A i \in DOMAIN query_tensors :
              /\ rewards[i] =
                   RankedScores(Decode(query_tensors[i])
                                  \o Decode(response_tensors[i]))[2].score
              /\ rewards_ref[i] =
                   RankedScores(Decode(query_tensors[i])
                                  \o Decode(response_tensors_ref[i]))[2].score

RewardsAlignedWitness ==
    /\ step_args # <<>>
    /\ Len(query_tensors) = 2
    /\ response_tensors[1] # response_tensors[2]
    /\ response_tensors_ref[1] # response_tensors_ref[2]
    /\ response_tensors # response_tensors_ref
    /\ rewards[1] # rewards[2]

\* C5: the five lists submitted to the update step have the same length, the
\* number of queries of the current batch, also for a final partial batch
SubmittedListsSameLength ==
    step_args # <<>> =>
        /\ Len(step_args.queries) = ItemsOfBatch(drawn, N)
        /\ Len(step_args.queries) = Len(batch.input_ids)
        /\ Len(step_args.responses) = Len(step_args.queries)
        /\ Len(step_args.responses_ref) = Len(step_args.queries)
        /\ Len(step_args.scores) = Len(step_args.queries)
        /\ Len(step_args.scores_ref) = Len(step_args.queries)

SubmittedPartialBatch ==
    /\ step_args # <<>>
    /\ drawn >= 2
    /\ Len(step_args.queries) < BatchSize
    /\ Len(step_args.scores_ref) = Len(step_args.queries)

\* number of reference generations among the first j calls of the batch
RefGenerationsBefore(j) ==
    Cardinality({k \in 1..(j - 1) : trace[k] = <<"generate", "ref">>})

\* C6 as stated: no scoring call is made before the reference responses have
\* all been generated
NoScoreBeforeRefGeneration ==
    \A j \in DOMAIN trace :
        trace[j][1] = "score" => RefGenerationsBefore(j) = Len(query_tensors)

\* the calls of one iteration over a batch of n queries
IterationCalls(n) ==
    [k \in 1..n |-> <<"generate", "policy">>] \o << <<"score", "policy">> >>
      \o [k \in 1..n |-> <<"generate", "ref">>] \o << <<"score", "ref">> >>
      \o << <<"update">>, <<"log">> >>

\* C6 amended: the calls of a batch are made in the order generate-policy (one
\* per query), score-policy, generate-reference (one per query),
\* score-reference, update, log, none repeated and none skipped
CallsInOrder ==
    drawn >= 1 =>
        LET n == ItemsOfBatch(drawn, N)
        IN  /\ IsPrefix(trace, IterationCalls(n))
            /\ pc = "step" => Len(trace) = 2 * n + 2
            /\ pc = "log" => Len(trace) = 2 * n + 3
            /\ pc \in {"fetch", "done"} => trace = IterationCalls(n)

CallsInOrderWitness ==
    /\ pc = "fetch"
    /\ drawn = 1
    /\ trace = IterationCalls(BatchSize)

\* C7: once a call has failed the run is over: no further step of any kind is
\* possible, in this batch or a later one
FailFast == failed => (pc = "aborted" /\ ~ENABLED Next)

FailFastWitness ==
    /\ failed
    /\ drawn >= 2
    /\ Last(trace) = <<"score", "policy">>

\* number of batches of a dataset of n items
BatchesOf(n) == CHOOSE k \in 0..n : (k - 1) * BatchSize < n /\ n <= k * BatchSize

\* an update followed by a log for each batch, in dataset order
FullHistory(n) ==
    [j \in 1..(2 * BatchesOf(n)) |->
        IF j % 2 = 1 THEN <<(j + 1) \div 2, "update">> ELSE <<j \div 2, "log">>]

\* C8: unless a step fails the loop ends, having processed every batch once,
\* in dataset order, an update then a log for each before the next starts;
\* fewer items than the batch size still make one batch
RunsToExhaustion ==
    /\ <>(pc = "done" \/ failed)
    /\ [](pc = "done" => history = FullHistory(N))
    /\ [](pc \in {"gen", "step", "log"} =>
             /\ IsPrefix(history, FullHistory(N))
             /\ Len(history) \in {2 * (drawn - 1), 2 * drawn - 1}
             /\ query_tensors =
                  [j \in 1..ItemsOfBatch(drawn, N) |->
                      InputIds((drawn - 1) * BatchSize + j)])

RunsToExhaustionWitness ==
    /\ pc = "done"
    /\ N < BatchSize
    /\ history = << <<1, "update">>, <<1, "log">> >>

\* C9: at the log call the texts under batch["response"] are the decoded
\* policy responses, the ones the logged rewards were computed from
LoggedResponsesArePolicy ==
    pc = "log" =>
        \A i \in DOMAIN rewards :
            /\ batch.response[i] = Decode(response_tensors[i])
            /\ rewards[i] =
                 RankedScores(batch.query[i] \o batch.response[i])[2].score

\* C10: a stored response holds only tokens generated for its query, none of
\* the prompt, also when generation returned fewer tokens than sampled
ResponseHasNoPromptToken ==
    JustGenerated =>
        LET query == query_tensors[Len(fn_response_tensors)]
        IN  /\ IsPrefix(query, response)
            /\ Len(Last(fn_response_tensors)) <= Len(response) - Len(query)

====
